---- MODULE Spec2Model ----
(***************************************************************************)
(* Model of the coding-standard management scripts:                        *)
(*   manage_coding_standard.py  (Standard Builder, Bulk Applier)           *)
(*   state_manager.py           (Drift Reconciler)                         *)
(* The remote service is the environment: it answers every request with    *)
(* one of the outcomes the requests library can produce.                   *)
(*                                                                         *)
(* A pattern is the record [id, enabled]; the accessor of the id           *)
(* (pattern['patternDefinition']['id'] in the builder, p['id'] in the      *)
(* reconciler) and the pattern parameters are abstracted away.             *)
(***************************************************************************)
EXTENDS Integers, Sequences, FiniteSets, TLC

VARIABLES
    config,       \* the baseline configuration: [tools |-> Seq(Tool)]
    remote,       \* the tools of the standard as the remote service holds them
    pageSize,     \* the page size of the remote pattern listing
    cascade,      \* remote semantics: disabling a tool disables its patterns
    faults,       \* the request outcomes the environment produces in this run
    isDraft,      \* the remote standard is still a draft
    live,         \* current_standard['tools'] as fetched by the reconciler
    deviations,   \* the deviations list of compare_and_update_standard
    idx,          \* position of the running for-loop
    tools,        \* the builder's `tools`: the listing of the new standard
    patterns,     \* the local `patterns` of the builder's disable loop
    standard,     \* the builder's `standard`: the response of createStandard
    repoPages,    \* the pages of the remote repository listing
    batch_size,   \* the applier's batch_size
    all_repositories, \* the names collected by the applier
    cursor,       \* the applier's cursor: the page to ask for next, 0 for None
    batchStart,   \* the applier's loop variable i: start of the current batch
    attempt,      \* the attempt of apply_coding_standard_to_repositories
    results,      \* the applier's results: successful and failed
    calls,        \* every request and every sleep so far, in order
    ret,          \* what the running function returned ("none" before)
    pc,           \* position of the program
    program,      \* the script whose main() runs ("none": a function on its own)
    CODACY_API_TOKEN, \* os.environ.get("CODACY_API_TOKEN") at import
    configFile,   \* the file named by --config: "ok" or "unreadable"
    exit          \* how the process ended: exit code and what it printed

applyVars == <<repoPages, batch_size, all_repositories, cursor, batchStart, attempt,
              results>>

mainVars == <<program, CODACY_API_TOKEN, configFile, exit>>

vars == <<config, remote, pageSize, cascade, faults, isDraft, live, deviations, idx,
          tools, patterns, standard, applyVars, calls, ret, pc, mainVars>>

-----------------------------------------------------------------------------
(* Bounds and universes *)

\* largest page size the remote pattern listing is tried with
MaxPageSize == 2

\* uuids of the tools the service knows, in the order it lists them
ToolOrder == <<"T1", "T2">>

\* the service's pattern ids per tool, in the order it lists them
Catalog(t) == IF t = "T1" THEN <<"P1", "P2">> ELSE <<"P3">>

Range(s) == {s[i] : i \in 1..Len(s)}

\* all sequences without repetition over the set S
RECURSIVE Perms(_)
Perms(S) ==
    IF S = {} THEN {<<>>}
    ELSE UNION {{<<x>> \o p : p \in Perms(S \ {x})} : x \in S}

\* the subsequence of s whose elements satisfy keep, order kept
RECURSIVE SelectSeq2(_, _)
SelectSeq2(s, keep) ==
    IF s = <<>> THEN <<>>
    ELSE (IF Head(s) \in keep THEN <<Head(s)>> ELSE <<>>) \o SelectSeq2(Tail(s), keep)

\* pattern lists over the ids of the sequence ids (given order), any flags
PatternLists(ids) ==
    {[i \in 1..Len(ids) |-> [id |-> ids[i], enabled |-> f[i]]] :
        f \in [1..Len(ids) -> BOOLEAN]}

\* baseline tools for uuid t: any ordered choice of its patterns, any flags
BaselineTools(t) ==
    UNION {UNION {{[uuid |-> t, isEnabled |-> e, patterns |-> ps] :
                      ps \in PatternLists(ids), e \in BOOLEAN} :
                  ids \in Perms(S)} :
           S \in SUBSET Range(Catalog(t))}

\* remote tools for uuid t: a sublist of the catalog in catalog order, any flags
RemoteTools(t) ==
    UNION {{[uuid |-> t, isEnabled |-> e, patterns |-> ps] :
               ps \in PatternLists(SelectSeq2(Catalog(t), S)), e \in BOOLEAN} :
           S \in SUBSET Range(Catalog(t))}

ToolChoices(t, baseline) == IF baseline THEN BaselineTools(t) ELSE RemoteTools(t)

\* one tool record per uuid of the sequence us: every combination
RECURSIVE ToolSeqs(_, _)
ToolSeqs(us, baseline) ==
    IF us = <<>> THEN {<<>>}
    ELSE {<<t>> \o rest : t \in ToolChoices(Head(us), baseline),
                          rest \in ToolSeqs(Tail(us), baseline)}

Configs ==
    {[tools |-> ts] :
        ts \in UNION {UNION {ToolSeqs(us, TRUE) : us \in Perms(S)} :
                      S \in SUBSET Range(ToolOrder)}}

Remotes ==
    UNION {ToolSeqs(SelectSeq2(ToolOrder, S), FALSE) :
           S \in SUBSET Range(ToolOrder)}

-----------------------------------------------------------------------------
(* The remote service *)

Min(a, b) == IF a < b THEN a ELSE b

\* index of the tool with this uuid in a tool list, 0 when absent
RECURSIVE FindFrom(_, _, _)
FindFrom(ts, uuid, i) ==
    IF i > Len(ts) THEN 0
    ELSE IF ts[i].uuid = uuid THEN i
    ELSE FindFrom(ts, uuid, i + 1)

FindTool(ts, uuid) == FindFrom(ts, uuid, 1)

\* the enabled flag the payload gives pattern id, or dflt when it gives none
PayloadFlag(payload, id, dflt) ==
    IF \E j \in 1..Len(payload) : payload[j].id = id
    THEN payload[CHOOSE j \in 1..Len(payload) :
                    /\ payload[j].id = id
                    /\ \A k \in (j+1)..Len(payload) : payload[k].id # id].enabled
    ELSE dflt

\* the service's tools after an accepted PATCH {enabled, patterns} of tool uuid
RemoteApply(ts, casc, uuid, enabled, payload) ==
    [i \in 1..Len(ts) |->
        IF ts[i].uuid # uuid THEN ts[i]
        ELSE [uuid |-> uuid,
              isEnabled |-> enabled,
              patterns |->
                [j \in 1..Len(ts[i].patterns) |->
                    [id |-> ts[i].patterns[j].id,
                     enabled |->
                        IF casc /\ ~enabled THEN FALSE
                        ELSE PayloadFlag(payload, ts[i].patterns[j].id,
                                         ts[i].patterns[j].enabled)]]]]

\* page k (from 1) of a tool's pattern listing
Page(ps, size, k) == SubSeq(ps, (k - 1) * size + 1, Min(k * size, Len(ps)))

\* the listing has a page after page k
HasNext(ps, size, k) == k * size < Len(ps)

\* a request record of the call log
Call(op, phase, uuid, enabled, payload, outcome) ==
    [op |-> op, phase |-> phase, uuid |-> uuid, enabled |-> enabled,
     patterns |-> payload, outcome |-> outcome]

\* the outcomes of a request: a 2xx response with a JSON body or with an empty
\* body, a non-2xx response (HTTPError), a connection failure or timeout
ReadOutcomes == {"ok", "http_error", "transport_error"}

WriteOutcomes == {"ok", "empty_body", "http_error", "transport_error"}

\* the service accepts a PATCH of a tool only if the standard has the tool
Accepts(ts, uuid, o) == o \in {"ok", "empty_body"} => FindTool(ts, uuid) # 0

Raised(fn, o) == [fn |-> fn, state |-> "raised", error |-> o]

NoRet == [fn |-> "none", state |-> "none"]

NoStandard == [id |-> "none", isDraft |-> TRUE]

NoResults == [successful |-> <<>>, failed |-> <<>>]

\* the applier's variables while another program runs
IdleApply ==
    /\ repoPages = <<>>
    /\ batch_size = 1
    /\ all_repositories = <<>>
    /\ cursor = 0
    /\ batchStart = 0
    /\ attempt = 0
    /\ results = NoResults

\* the value of the environment variable when it is not set: None
NoToken == "<None>"

Running == [state |-> "running"]

\* the variables of main() while a function is run on its own
IdleMain ==
    /\ program = "none"
    /\ CODACY_API_TOKEN = "t0k3n"
    /\ configFile = "ok"
    /\ exit = Running

-----------------------------------------------------------------------------
(* state_manager.py: the Drift Reconciler *)

\* get_tool_patterns: follows pagination.next until the listing is exhausted
RECURSIVE GetPagesFrom(_, _, _)
GetPagesFrom(ps, size, k) ==
    Page(ps, size, k) \o
        (IF HasNext(ps, size, k) THEN GetPagesFrom(ps, size, k + 1) ELSE <<>>)

get_tool_patterns(ps, size) == GetPagesFrom(ps, size, 1)

\* the GET requests get_tool_patterns issues for one tool, one per page
RECURSIVE PageCallsFrom(_, _, _, _, _)
PageCallsFrom(phase, uuid, ps, size, k) ==
    <<Call("listPatterns", phase, uuid, FALSE, Page(ps, size, k), "ok")>> \o
        (IF HasNext(ps, size, k) THEN PageCallsFrom(phase, uuid, ps, size, k + 1)
         ELSE <<>>)

\* main, lines 149-157: the live tree, every tool with all its patterns
FetchTools(ts, size) ==
    [i \in 1..Len(ts) |->
        [uuid |-> ts[i].uuid, isEnabled |-> ts[i].isEnabled,
         patterns |-> get_tool_patterns(ts[i].patterns, size)]]

RECURSIVE FetchCallsFrom(_, _, _)
FetchCallsFrom(ts, size, i) ==
    IF i > Len(ts) THEN <<>>
    ELSE PageCallsFrom("fetch", ts[i].uuid, ts[i].patterns, size, 1)
            \o FetchCallsFrom(ts, size, i + 1)

\* {p['id']: p for p in patterns}: membership and lookup (the last entry wins)
InDict(ps, id) == \E j \in 1..Len(ps) : ps[j].id = id

DictGet(ps, id) ==
    ps[CHOOSE j \in 1..Len(ps) :
          /\ ps[j].id = id
          /\ \A k \in (j+1)..Len(ps) : ps[k].id # id]

Deviation(kind, uuid, pattern) == [kind |-> kind, tool |-> uuid, pattern |-> pattern]

\* ComparePatterns that compares the flag of enabled baseline patterns only
RECURSIVE ComparePatterns_EnabledOnly(_, _, _)
ComparePatterns_EnabledOnly(uuid, original_patterns, current_patterns) ==
    IF original_patterns = <<>> THEN <<>>
    ELSE LET p == Head(original_patterns)
             d == IF ~InDict(current_patterns, p.id)
                  THEN <<Deviation("pattern-missing", uuid, p.id)>>
                  ELSE IF p.enabled /\ ~DictGet(current_patterns, p.id).enabled
                  THEN <<Deviation("pattern-enabled-mismatch", uuid, p.id)>>
                  ELSE <<>>
         IN d \o ComparePatterns_EnabledOnly(uuid, Tail(original_patterns),
                                             current_patterns)

\* lines 99-103: the pattern deviations of one tool, in baseline pattern order
RECURSIVE ComparePatterns(_, _, _)
ComparePatterns(uuid, original_patterns, current_patterns) ==
    IF original_patterns = <<>> THEN <<>>
    ELSE LET p == Head(original_patterns)
             d == IF ~InDict(current_patterns, p.id)
                  THEN <<Deviation("pattern-missing", uuid, p.id)>>
                  ELSE IF DictGet(current_patterns, p.id).enabled # p.enabled
                  THEN <<Deviation("pattern-enabled-mismatch", uuid, p.id)>>
                  ELSE <<>>
         IN d \o ComparePatterns(uuid, Tail(original_patterns), current_patterns)

\* ScanTool without the comparison of the tools' isEnabled flags
ScanTool_NoFlagCheck(original_tool, current_tools) ==
    LET i == FindTool(current_tools, original_tool.uuid)
    IN IF i = 0
       THEN <<Deviation("tool-missing", original_tool.uuid, "-")>>
       ELSE ComparePatterns(original_tool.uuid, original_tool.patterns,
                            current_tools[i].patterns)

\* ScanTool that goes on to compare the patterns of a tool missing live
ScanTool_NoContinue(original_tool, current_tools) ==
    LET i == FindTool(current_tools, original_tool.uuid)
    IN IF i = 0
       THEN <<Deviation("tool-missing", original_tool.uuid, "-")>>
            \o ComparePatterns(original_tool.uuid, original_tool.patterns, <<>>)
       ELSE (IF current_tools[i].isEnabled # original_tool.isEnabled
             THEN <<Deviation("tool-enabled-mismatch", original_tool.uuid, "-")>>
             ELSE <<>>)
            \o ComparePatterns(original_tool.uuid, original_tool.patterns,
                               current_tools[i].patterns)

\* lines 86-103: what the scan of one baseline tool appends to deviations
ScanTool(original_tool, current_tools) ==
    LET i == FindTool(current_tools, original_tool.uuid)
    IN IF i = 0
       THEN <<Deviation("tool-missing", original_tool.uuid, "-")>>
       ELSE (IF current_tools[i].isEnabled # original_tool.isEnabled
             THEN <<Deviation("tool-enabled-mismatch", original_tool.uuid, "-")>>
             ELSE <<>>)
            \o ComparePatterns(original_tool.uuid, original_tool.patterns,
                               current_tools[i].patterns)

\* line 106: `if deviations:` tests the list accumulated over all tools so far
UpdateNeeded(accumulated, own) == accumulated # <<>>

\* main, lines 149-157: fetch the tools and all their patterns
RecFetch ==
    /\ pc = "fetch"
    /\ \E o \in ReadOutcomes \cap faults :
        IF o = "ok"
        THEN /\ live' = FetchTools(remote, pageSize)
             /\ calls' = calls
                   \o <<Call("listTools", "fetch", "-", FALSE, <<>>, "ok")>>
                   \o FetchCallsFrom(remote, pageSize, 1)
             /\ idx' = 1
             /\ deviations' = <<>>
             /\ pc' = "scan"
             /\ ret' = [fn |-> "reconcile", state |-> "running"]
        ELSE /\ calls' = Append(calls, Call("listTools", "fetch", "-", FALSE, <<>>, o))
             /\ ret' = Raised("fetch", o)
             /\ pc' = "raised"
             /\ UNCHANGED <<live, idx, deviations>>
    /\ UNCHANGED <<config, remote, pageSize, cascade, faults, isDraft, tools,
                   patterns, standard>>
    /\ UNCHANGED applyVars
    /\ UNCHANGED mainVars

\* RecScan that writes the live isEnabled flag into the baseline tool it scans
RecScan_SyncBaseline ==
    /\ pc = "scan"
    /\ idx <= Len(config.tools)
    /\ LET original_tool == config.tools[idx]
           own == ScanTool(original_tool, live)
           at == FindTool(live, original_tool.uuid)
           missing == at = 0
       IN /\ deviations' = deviations \o own
          /\ config' = IF missing THEN config
                       ELSE [tools |-> [config.tools EXCEPT
                                ![idx].isEnabled = live[at].isEnabled]]
          /\ IF ~missing /\ UpdateNeeded(deviations', own)
             THEN pc' = "update" /\ idx' = idx
             ELSE pc' = "scan" /\ idx' = idx + 1
    /\ UNCHANGED <<remote, pageSize, cascade, faults, isDraft, live, tools,
                   patterns, standard, calls, ret>>
    /\ UNCHANGED applyVars
    /\ UNCHANGED mainVars

\* lines 85-106: one iteration of the loop up to the update decision
RecScan ==
    /\ pc = "scan"
    /\ idx <= Len(config.tools)
    /\ LET original_tool == config.tools[idx]
           own == ScanTool(original_tool, live)
           missing == FindTool(live, original_tool.uuid) = 0
       IN /\ deviations' = deviations \o own
          /\ IF ~missing /\ UpdateNeeded(deviations', own)
             THEN pc' = "update" /\ idx' = idx
             ELSE pc' = "scan" /\ idx' = idx + 1
    /\ UNCHANGED <<config, remote, pageSize, cascade, faults, isDraft, live, tools,
                   patterns, standard, calls, ret>>
    /\ UNCHANGED applyVars
    /\ UNCHANGED mainVars

\* RecUpdate that sends only the baseline patterns whose flag is true
RecUpdate_EnabledPatternsOnly ==
    /\ pc = "update"
    /\ LET t == config.tools[idx]
           sent == SelectSeq(t.patterns, LAMBDA p : p.enabled)
       IN \E o \in WriteOutcomes \cap faults :
            /\ calls' = Append(calls,
                    Call("updateTool", "reconcile", t.uuid, t.isEnabled, sent, o))
            /\ remote' = IF o \in {"ok", "empty_body"}
                         THEN RemoteApply(remote, cascade, t.uuid, t.isEnabled, sent)
                         ELSE remote
            /\ IF o = "ok"
               THEN pc' = "scan" /\ idx' = idx + 1 /\ ret' = ret
               ELSE /\ pc' = "raised"
                    /\ idx' = idx
                    /\ ret' = Raised("reconcile", o)
    /\ UNCHANGED <<config, pageSize, cascade, faults, isDraft, live, deviations, tools,
                   patterns, standard>>
    /\ UNCHANGED applyVars
    /\ UNCHANGED mainVars

\* lines 107-114 and 70-78: the corrective PATCH of the tool just scanned
RecUpdate ==
    /\ pc = "update"
    /\ LET t == config.tools[idx]
       IN \E o \in WriteOutcomes \cap faults :
            /\ calls' = Append(calls,
                    Call("updateTool", "reconcile", t.uuid, t.isEnabled, t.patterns, o))
            /\ remote' = IF o \in {"ok", "empty_body"}
                         THEN RemoteApply(remote, cascade, t.uuid, t.isEnabled, t.patterns)
                         ELSE remote
            /\ IF o = "ok"
               THEN pc' = "scan" /\ idx' = idx + 1 /\ ret' = ret
               ELSE /\ pc' = "raised"
                    /\ idx' = idx
                    /\ ret' = Raised("reconcile", o)
    /\ UNCHANGED <<config, pageSize, cascade, faults, isDraft, live, deviations, tools,
                   patterns, standard>>
    /\ UNCHANGED applyVars
    /\ UNCHANGED mainVars

\* line 116: return deviations
RecReturn ==
    /\ pc = "scan"
    /\ idx > Len(config.tools)
    /\ pc' = "done"
    /\ ret' = [fn |-> "reconcile", state |-> "returned", value |-> deviations]
    /\ UNCHANGED <<config, remote, pageSize, cascade, faults, isDraft, live, deviations,
                   idx, tools, patterns, standard, calls>>
    /\ UNCHANGED applyVars
    /\ UNCHANGED mainVars

InitRec ==
    /\ config \in Configs
    /\ remote \in Remotes
    /\ pageSize \in 1..MaxPageSize
    /\ cascade = FALSE
    /\ faults = ReadOutcomes \cup WriteOutcomes
    /\ isDraft = FALSE
    /\ live = <<>>
    /\ deviations = <<>>
    /\ idx = 1
    /\ tools = <<>>
    /\ patterns = <<>>
    /\ standard = NoStandard
    /\ IdleApply
    /\ calls = <<>>
    /\ ret = NoRet
    /\ pc = "fetch"
    /\ IdleMain

NextRec == RecFetch \/ RecScan \/ RecUpdate \/ RecReturn

SpecRec == InitRec /\ [][NextRec]_vars

-----------------------------------------------------------------------------
(* manage_coding_standard.py: the Standard Builder *)

\* a new standard lists every tool it has with the tool's whole catalog; its
\* tools start enabled (the disable pass overwrites the flag before it is read)
FullCatalog(ts) ==
    \A i \in 1..Len(ts) :
        /\ Len(ts[i].patterns) = Len(Catalog(ts[i].uuid))
        /\ ts[i].isEnabled

NewStandards == {ts \in Remotes : FullCatalog(ts)}

\* lines 38-42: one GET, the 'data' of its response: the first page
list_tool_patterns(ps, size) == Page(ps, size, 1)

\* disabled_patterns that passes the fetched enabled flag on
disabled_patterns_keep(ps) ==
    [j \in 1..Len(ps) |-> [id |-> ps[j].id, enabled |-> ps[j].enabled]]

\* lines 90-95: every fetched pattern, enabled False
disabled_patterns(ps) ==
    [j \in 1..Len(ps) |-> [id |-> ps[j].id, enabled |-> FALSE]]

IsEnabled(p) == p.enabled

\* enabled_patterns that keeps every config pattern, whatever its flag
enabled_patterns_all(ps) ==
    [j \in 1..Len(ps) |-> [id |-> ps[j].id, enabled |-> ps[j].enabled]]

\* lines 105-111: the config patterns whose enabled flag is true
enabled_patterns(ps) ==
    LET kept == SelectSeq(ps, IsEnabled)
    IN [j \in 1..Len(kept) |-> [id |-> kept[j].id, enabled |-> kept[j].enabled]]

\* the position after the disable loop, and after the enable loop
AfterDisable(i) ==
    IF i <= Len(tools) THEN "disable_list"
    ELSE IF Len(config.tools) > 0 THEN "enable" ELSE "promote"

\* lines 76-79: createStandard
BuildCreate ==
    /\ pc = "create"
    /\ \E o \in ReadOutcomes \cap faults :
        /\ calls' = Append(calls, Call("createStandard", "build", "-", FALSE, <<>>, o))
        /\ IF o = "ok"
           THEN /\ standard' = [id |-> "S1", isDraft |-> TRUE]
                /\ pc' = "list_tools"
                /\ ret' = [fn |-> "build", state |-> "running"]
           ELSE /\ standard' = standard
                /\ pc' = "raised"
                /\ ret' = Raised("build", o)
    /\ UNCHANGED <<config, remote, pageSize, cascade, faults, isDraft, live, deviations,
                   idx, tools, patterns>>
    /\ UNCHANGED applyVars
    /\ UNCHANGED mainVars

\* line 82: listTools
BuildListTools ==
    /\ pc = "list_tools"
    /\ \E o \in ReadOutcomes \cap faults :
        /\ calls' = Append(calls, Call("listTools", "build", "-", FALSE, <<>>, o))
        /\ IF o = "ok"
           THEN /\ tools' = [i \in 1..Len(remote) |->
                                [uuid |-> remote[i].uuid,
                                 isEnabled |-> remote[i].isEnabled]]
                /\ idx' = 1
                /\ pc' = IF Len(remote) > 0 THEN "disable_list"
                         ELSE IF Len(config.tools) > 0 THEN "enable" ELSE "promote"
                /\ ret' = ret
           ELSE /\ tools' = tools
                /\ idx' = idx
                /\ pc' = "raised"
                /\ ret' = Raised("build", o)
    /\ UNCHANGED <<config, remote, pageSize, cascade, faults, isDraft, live, deviations,
                   patterns, standard>>
    /\ UNCHANGED applyVars
    /\ UNCHANGED mainVars

\* line 86: the patterns of the tool to disable
BuildListPatterns ==
    /\ pc = "disable_list"
    /\ LET uuid == tools[idx].uuid
           data == list_tool_patterns(remote[FindTool(remote, uuid)].patterns, pageSize)
       IN \E o \in ReadOutcomes \cap faults :
            /\ calls' = Append(calls,
                    Call("listPatterns", "disable", uuid, FALSE,
                         IF o = "ok" THEN data ELSE <<>>, o))
            /\ IF o = "ok"
               THEN patterns' = data /\ pc' = "disable_update" /\ ret' = ret
               ELSE patterns' = patterns /\ pc' = "raised" /\ ret' = Raised("build", o)
    /\ UNCHANGED <<config, remote, pageSize, cascade, faults, isDraft, live, deviations,
                   idx, tools, standard>>
    /\ UNCHANGED applyVars
    /\ UNCHANGED mainVars

\* lines 90-97: disable the tool and the patterns fetched for it
BuildDisable ==
    /\ pc = "disable_update"
    /\ LET uuid == tools[idx].uuid
           payload == disabled_patterns(patterns)
       IN \E o \in WriteOutcomes \cap faults :
            /\ calls' = Append(calls,
                    Call("updateTool", "disable", uuid, FALSE, payload, o))
            /\ IF o \in {"ok", "empty_body"}
               THEN /\ remote' = RemoteApply(remote, cascade, uuid, FALSE, payload)
                    /\ idx' = IF idx < Len(tools) THEN idx + 1 ELSE 1
                    /\ pc' = AfterDisable(idx + 1)
                    /\ ret' = ret
               ELSE /\ remote' = remote
                    /\ idx' = idx
                    /\ pc' = "raised"
                    /\ ret' = Raised("build", o)
    /\ UNCHANGED <<config, pageSize, cascade, faults, isDraft, live, deviations, tools,
                   patterns, standard>>
    /\ UNCHANGED applyVars
    /\ UNCHANGED mainVars

\* the exceptions the try of the enable loop and of the promotion catch:
\* `except requests.exceptions.HTTPError`
Caught(o) == o = "http_error"

\* lines 100-114: enable one tool of config.tools
BuildEnable ==
    /\ pc = "enable"
    /\ LET tool == config.tools[idx]
           payload == enabled_patterns(tool.patterns)
       IN \E o \in WriteOutcomes \cap faults :
            /\ Accepts(remote, tool.uuid, o)
            /\ calls' = Append(calls,
                    Call("updateTool", "enable", tool.uuid, tool.isEnabled, payload, o))
            /\ remote' = IF o \in {"ok", "empty_body"}
                         THEN RemoteApply(remote, cascade, tool.uuid, tool.isEnabled,
                                          payload)
                         ELSE remote
            /\ IF o \in {"ok", "empty_body"} \/ Caught(o)
               THEN /\ idx' = IF idx < Len(config.tools) THEN idx + 1 ELSE 1
                    /\ pc' = IF idx < Len(config.tools) THEN "enable" ELSE "promote"
                    /\ ret' = ret
               ELSE /\ idx' = idx
                    /\ pc' = "raised"
                    /\ ret' = Raised("build", o)
    /\ UNCHANGED <<config, pageSize, cascade, faults, isDraft, live, deviations, tools,
                   patterns, standard>>
    /\ UNCHANGED applyVars
    /\ UNCHANGED mainVars

\* lines 116-122: promote, then return the response of createStandard
BuildPromote ==
    /\ pc = "promote"
    /\ \E o \in ReadOutcomes \cap faults :
        /\ calls' = Append(calls, Call("promoteStandard", "build", "-", FALSE, <<>>, o))
        /\ isDraft' = IF o = "ok" THEN FALSE ELSE isDraft
        /\ IF o = "ok" \/ Caught(o)
           THEN /\ pc' = "built"
                /\ ret' = [fn |-> "build", state |-> "returned", value |-> standard]
           ELSE /\ pc' = "raised"
                /\ ret' = Raised("build", o)
    /\ UNCHANGED <<config, remote, pageSize, cascade, faults, live, deviations, idx,
                   tools, patterns, standard>>
    /\ UNCHANGED applyVars
    /\ UNCHANGED mainVars

InitBuild ==
    /\ config \in Configs
    /\ remote \in NewStandards
    /\ pageSize \in 1..MaxPageSize
    /\ cascade = FALSE
    /\ faults = ReadOutcomes \cup WriteOutcomes
    /\ isDraft = TRUE
    /\ live = <<>>
    /\ deviations = <<>>
    /\ idx = 1
    /\ tools = <<>>
    /\ patterns = <<>>
    /\ standard = NoStandard
    /\ IdleApply
    /\ calls = <<>>
    /\ ret = NoRet
    /\ pc = "create"
    /\ IdleMain

NextBuild ==
    \/ BuildCreate \/ BuildListTools \/ BuildListPatterns \/ BuildDisable
    \/ BuildEnable \/ BuildPromote

SpecBuild == InitBuild /\ [][NextBuild]_vars

-----------------------------------------------------------------------------
(* Round trip: build from config, then reconcile the live result against it *)

\* the reconciler is started on the standard the builder returned
RoundTripStart ==
    /\ pc = "built"
    /\ pc' = "fetch"
    /\ UNCHANGED <<config, remote, pageSize, cascade, faults, isDraft, live,
                   deviations, idx, tools, patterns, standard, calls, ret>>
    /\ UNCHANGED applyVars
    /\ UNCHANGED mainVars

\* every request of the run succeeds; either remote semantics of disabling
InitRound ==
    /\ config \in Configs
    /\ remote \in NewStandards
    /\ pageSize \in 1..MaxPageSize
    /\ cascade \in BOOLEAN
    /\ faults = {"ok"}
    /\ isDraft = TRUE
    /\ live = <<>>
    /\ deviations = <<>>
    /\ idx = 1
    /\ tools = <<>>
    /\ patterns = <<>>
    /\ standard = NoStandard
    /\ IdleApply
    /\ calls = <<>>
    /\ ret = NoRet
    /\ pc = "create"
    /\ IdleMain

NextRound == NextBuild \/ RoundTripStart \/ NextRec

SpecRound == InitRound /\ [][NextRound]_vars

-----------------------------------------------------------------------------
(* manage_coding_standard.py: the Bulk Applier *)

\* most repositories of the organization
MaxRepos == 4

\* largest batch_size tried
MaxBatch == 3

\* max_retries of apply_coding_standard_to_repositories
max_retries == 3

\* the outcomes of the link PATCH: 2xx with a JSON body, 2xx with an empty
\* body, status 400, another error status (500), connection failure or timeout
LinkOutcomes == {"ok", "empty_body", "http_400", "http_500", "transport_error"}

AllOutcomes == ReadOutcomes \cup WriteOutcomes \cup LinkOutcomes

\* the text of the response the service sends with a status
BodyOf(o) == IF o = "http_400" THEN "rejected: bad request" ELSE "server error"

StatusOf(o) == IF o = "http_400" THEN 400 ELSE 500

RECURSIVE Pow2(_)
Pow2(n) == IF n = 0 THEN 1 ELSE 2 * Pow2(n - 1)

\* the ways to cut the sequence s into contiguous non-empty pages
RECURSIVE Cuts(_)
Cuts(s) ==
    IF s = <<>> THEN {<<>>}
    ELSE UNION {{<<SubSeq(s, 1, k)>> \o rest : rest \in Cuts(SubSeq(s, k + 1, Len(s)))} :
                k \in 1..Len(s)}

\* the repository listings: the names 1..n over any pages; no name, one empty page
RepoListings ==
    {<<<<>>>>} \cup UNION {Cuts([k \in 1..n |-> k]) : n \in 1..MaxRepos}

\* Slice whose end is one name too far: neighbouring batches overlap
Slice_Overlap(s, from, size) == SubSeq(s, from + 1, Min(from + size + 1, Len(s)))

\* line 176: all_repositories[i:i+batch_size]
Slice(s, from, size) == SubSeq(s, from + 1, Min(from + size, Len(s)))

\* LinkStep with the backoff one power of two too long
LinkStep_LongBackoff(o, k) ==
    IF o = "ok" THEN [kind |-> "result", success |-> TRUE]
    ELSE IF o = "http_400"
    THEN [kind |-> "result", success |-> FALSE, error |-> "HTTPError",
          status_code |-> StatusOf(o), error_content |-> BodyOf(o)]
    ELSE IF o = "http_500"
    THEN IF k = max_retries - 1
         THEN [kind |-> "result", success |-> FALSE, error |-> "HTTPError",
               status_code |-> StatusOf(o), error_content |-> "None"]
         ELSE [kind |-> "retry", sleep |-> Pow2(k + 1)]
    ELSE [kind |-> "raise"]

\* LinkStep that retries a 400 like any other status
LinkStep_Retry400(o, k) ==
    IF o = "ok" THEN [kind |-> "result", success |-> TRUE]
    ELSE IF o \in {"http_400", "http_500"}
    THEN IF k = max_retries - 1
         THEN [kind |-> "result", success |-> FALSE, error |-> "HTTPError",
               status_code |-> StatusOf(o), error_content |-> "None"]
         ELSE [kind |-> "retry", sleep |-> Pow2(k)]
    ELSE [kind |-> "raise"]

\* lines 141-155: what one attempt's response makes of the call:
\* a result to return, a retry after a sleep, or an exception that escapes
LinkStep(o, k) ==
    IF o = "ok" THEN [kind |-> "result", success |-> TRUE]
    ELSE IF o = "http_400"
    THEN [kind |-> "result", success |-> FALSE, error |-> "HTTPError",
          status_code |-> StatusOf(o), error_content |-> BodyOf(o)]
    ELSE IF o = "http_500"
    THEN IF k = max_retries - 1
         THEN [kind |-> "result", success |-> FALSE, error |-> "HTTPError",
               status_code |-> StatusOf(o), error_content |-> "None"]
         ELSE [kind |-> "retry", sleep |-> Pow2(k)]
    ELSE [kind |-> "raise"]

\* Record that notes a failed batch under its first repository only
Record_FirstOnly(res, batch, result) ==
    IF result.success
    THEN [successful |-> res.successful \o batch, failed |-> res.failed]
    ELSE [successful |-> res.successful,
          failed |-> Append(res.failed,
                        [repo |-> batch[1], error |-> result.error,
                         status_code |-> result.status_code,
                         error_content |-> result.error_content])]

\* lines 178-190: the results after one batch's result
Record(res, batch, result) ==
    IF result.success
    THEN [successful |-> res.successful \o batch, failed |-> res.failed]
    ELSE [successful |-> res.successful,
          failed |-> res.failed \o
                [j \in 1..Len(batch) |->
                    [repo |-> batch[j], error |-> result.error,
                     status_code |-> result.status_code,
                     error_content |-> result.error_content]]]

Sleep(secs, why) == [op |-> "sleep", secs |-> secs, why |-> why]

\* ApplyList that ignores the cursor of the response: one page only
ApplyList_FirstPageOnly ==
    /\ pc = "apply_list"
    /\ \E o \in ReadOutcomes \cap faults :
        /\ calls' = Append(calls, [op |-> "listRepos", cursor |-> cursor, outcome |-> o])
        /\ IF o = "ok"
           THEN LET all == all_repositories \o repoPages[cursor + 1]
                IN /\ all_repositories' = all
                   /\ cursor' = cursor
                   /\ pc' = IF Len(all) > 0 THEN "link" ELSE "applied"
                   /\ ret' = IF Len(all) = 0
                             THEN [fn |-> "apply", state |-> "returned",
                                   value |-> results]
                             ELSE [fn |-> "apply", state |-> "running"]
           ELSE /\ pc' = "raised"
                /\ ret' = Raised("apply", o)
                /\ UNCHANGED <<all_repositories, cursor>>
    /\ UNCHANGED <<repoPages, batch_size, batchStart, attempt, results>>
    /\ UNCHANGED <<config, remote, pageSize, cascade, faults, isDraft, live,
                   deviations, idx, tools, patterns, standard>>
    /\ UNCHANGED mainVars

\* lines 161-172: one listRepositories request of the draining loop
ApplyList ==
    /\ pc = "apply_list"
    /\ \E o \in ReadOutcomes \cap faults :
        /\ calls' = Append(calls, [op |-> "listRepos", cursor |-> cursor, outcome |-> o])
        /\ IF o = "ok"
           THEN LET page == cursor + 1
                    more == page < Len(repoPages)
                    all == all_repositories \o repoPages[page]
                IN /\ all_repositories' = all
                   /\ cursor' = IF more THEN page ELSE cursor
                   /\ pc' = IF more THEN "apply_list"
                            ELSE IF Len(all) > 0 THEN "link" ELSE "applied"
                   /\ ret' = IF ~more /\ Len(all) = 0
                             THEN [fn |-> "apply", state |-> "returned",
                                   value |-> results]
                             ELSE [fn |-> "apply", state |-> "running"]
           ELSE /\ pc' = "raised"
                /\ ret' = Raised("apply", o)
                /\ UNCHANGED <<all_repositories, cursor>>
    /\ UNCHANGED <<repoPages, batch_size, batchStart, attempt, results>>
    /\ UNCHANGED <<config, remote, pageSize, cascade, faults, isDraft, live,
                   deviations, idx, tools, patterns, standard>>
    /\ UNCHANGED mainVars

\* ApplyLink that pauses after a successful batch only
ApplyLink_PauseOnSuccessOnly ==
    /\ pc = "link"
    /\ \E o \in LinkOutcomes \cap faults :
        LET batch == Slice(all_repositories, batchStart, batch_size)
            step == LinkStep(o, attempt)
            call == [op |-> "link", start |-> batchStart, names |-> batch,
                     attempt |-> attempt, outcome |-> o]
            next == batchStart + batch_size
        IN IF step.kind = "result"
           THEN /\ results' = Record(results, batch, step)
                /\ calls' = IF step.success THEN calls \o <<call, Sleep(1, "pause")>>
                            ELSE Append(calls, call)
                /\ batchStart' = IF next < Len(all_repositories) THEN next ELSE batchStart
                /\ attempt' = 0
                /\ pc' = IF next < Len(all_repositories) THEN "link" ELSE "applied"
                /\ ret' = IF next < Len(all_repositories) THEN ret
                          ELSE [fn |-> "apply", state |-> "returned", value |-> results']
           ELSE IF step.kind = "retry"
           THEN /\ calls' = calls \o <<call, Sleep(step.sleep, "backoff")>>
                /\ attempt' = attempt + 1
                /\ UNCHANGED <<results, batchStart, pc, ret>>
           ELSE /\ calls' = Append(calls, call)
                /\ pc' = "raised"
                /\ ret' = Raised("apply", o)
                /\ UNCHANGED <<results, batchStart, attempt>>
    /\ UNCHANGED <<repoPages, batch_size, all_repositories, cursor>>
    /\ UNCHANGED <<config, remote, pageSize, cascade, faults, isDraft, live,
                   deviations, idx, tools, patterns, standard>>
    /\ UNCHANGED mainVars

\* lines 141-153 and 175-195: one link attempt for the current batch, with
\* what follows it: the backoff sleep, or the batch's record and pause
ApplyLink ==
    /\ pc = "link"
    /\ \E o \in LinkOutcomes \cap faults :
        LET batch == Slice(all_repositories, batchStart, batch_size)
            step == LinkStep(o, attempt)
            call == [op |-> "link", start |-> batchStart, names |-> batch,
                     attempt |-> attempt, outcome |-> o]
            next == batchStart + batch_size
        IN IF step.kind = "result"
           THEN /\ results' = Record(results, batch, step)
                /\ calls' = calls \o <<call, Sleep(1, "pause")>>
                /\ batchStart' = IF next < Len(all_repositories) THEN next ELSE batchStart
                /\ attempt' = 0
                /\ pc' = IF next < Len(all_repositories) THEN "link" ELSE "applied"
                /\ ret' = IF next < Len(all_repositories) THEN ret
                          ELSE [fn |-> "apply", state |-> "returned", value |-> results']
           ELSE IF step.kind = "retry"
           THEN /\ calls' = calls \o <<call, Sleep(step.sleep, "backoff")>>
                /\ attempt' = attempt + 1
                /\ UNCHANGED <<results, batchStart, pc, ret>>
           ELSE /\ calls' = Append(calls, call)
                /\ pc' = "raised"
                /\ ret' = Raised("apply", o)
                /\ UNCHANGED <<results, batchStart, attempt>>
    /\ UNCHANGED <<repoPages, batch_size, all_repositories, cursor>>
    /\ UNCHANGED <<config, remote, pageSize, cascade, faults, isDraft, live,
                   deviations, idx, tools, patterns, standard>>
    /\ UNCHANGED mainVars

InitApply ==
    /\ config = [tools |-> <<>>]
    /\ remote = <<>>
    /\ pageSize = 1
    /\ cascade = FALSE
    /\ faults = AllOutcomes
    /\ isDraft = FALSE
    /\ live = <<>>
    /\ deviations = <<>>
    /\ idx = 1
    /\ tools = <<>>
    /\ patterns = <<>>
    /\ standard = [id |-> "S1", isDraft |-> TRUE]
    /\ repoPages \in RepoListings
    /\ batch_size \in 1..MaxBatch
    /\ all_repositories = <<>>
    /\ cursor = 0
    /\ batchStart = 0
    /\ attempt = 0
    /\ results = NoResults
    /\ calls = <<>>
    /\ ret = NoRet
    /\ pc = "apply_list"
    /\ IdleMain

NextApply == ApplyList \/ ApplyLink

SpecApply == InitApply /\ [][NextApply]_vars

\* the repository listings that fit one page: the names 1..n, n from 0
OnePageListings == {<<[k \in 1..n |-> k]>> : n \in 0..MaxRepos}

\* the applier on an organization whose repositories fit one page
InitBatch ==
    /\ config = [tools |-> <<>>]
    /\ remote = <<>>
    /\ pageSize = 1
    /\ cascade = FALSE
    /\ faults = AllOutcomes
    /\ isDraft = FALSE
    /\ live = <<>>
    /\ deviations = <<>>
    /\ idx = 1
    /\ tools = <<>>
    /\ patterns = <<>>
    /\ standard = [id |-> "S1", isDraft |-> TRUE]
    /\ repoPages \in OnePageListings
    /\ batch_size \in 1..MaxBatch
    /\ all_repositories = <<>>
    /\ cursor = 0
    /\ batchStart = 0
    /\ attempt = 0
    /\ results = NoResults
    /\ calls = <<>>
    /\ ret = NoRet
    /\ pc = "apply_list"
    /\ IdleMain

SpecBatch == InitBatch /\ [][NextApply]_vars

-----------------------------------------------------------------------------
(* The entry points: main() of manage_coding_standard.py, of               *)
(* state_manager.py and of codacy_standards_extractor.py                   *)

Programs == {"manage", "state_manager", "extractor"}

\* TokenMissing that takes only the empty string for a missing token
TokenMissing_EmptyOnly(token) == token = ""

\* `if not CODACY_API_TOKEN`: None and the empty string are both falsy
TokenMissing(token) == token \in {NoToken, ""}

\* the interpreter ends a run whose exception nothing caught: traceback, status 1
Uncaught(error) == [state |-> "exited", code |-> 1, printed |-> error]

\* the except clauses of main print the error; main returns, status 0
Handled == [state |-> "exited", code |-> 0, printed |-> "An error occurred"]

\* main returns after its last print, or after the notice that there is no
\* active standard: status 0
Finished(printed) == [state |-> "exited", code |-> 0, printed |-> printed]

IsEnabledTool(t) == t.isEnabled

\* extractor lines 118-126: the tools, the enabled ones with all their patterns
ExtractTools(ts, size) ==
    [i \in 1..Len(ts) |->
        [uuid |-> ts[i].uuid, isEnabled |-> ts[i].isEnabled,
         patterns |-> IF ts[i].isEnabled
                      THEN get_tool_patterns(ts[i].patterns, size) ELSE <<>>]]

RECURSIVE ExtractCallsFrom(_, _, _)
ExtractCallsFrom(ts, size, i) ==
    IF i > Len(ts) THEN <<>>
    ELSE (IF ts[i].isEnabled
          THEN PageCallsFrom("extract", ts[i].uuid, ts[i].patterns, size, 1)
          ELSE <<>>)
            \o ExtractCallsFrom(ts, size, i + 1)

\* extractor lines 70-93: the enabled tools, each with its enabled patterns
save_coding_standard(ts) ==
    LET kept == SelectSeq(ts, IsEnabledTool)
    IN [tools |-> [i \in 1..Len(kept) |->
                    [uuid |-> kept[i].uuid, isEnabled |-> kept[i].isEnabled,
                     patterns |-> SelectSeq(kept[i].patterns, IsEnabled)]]]

\* the token check of main, after the arguments are parsed and before the try
MainStart ==
    /\ pc = "main"
    /\ IF TokenMissing(CODACY_API_TOKEN)
       THEN /\ exit' = Uncaught("ValueError")
            /\ pc' = "exited"
       ELSE /\ exit' = exit
            /\ pc' = IF program = "extractor" THEN "standards" ELSE "load"
    /\ UNCHANGED <<config, remote, pageSize, cascade, faults, isDraft, live,
                   deviations, idx, tools, patterns, standard, calls, ret>>
    /\ UNCHANGED applyVars
    /\ UNCHANGED <<program, CODACY_API_TOKEN, configFile>>

\* load_config (manage, line 72) and load_original_config (state_manager,
\* line 133): open and json.load raise on an unreadable or invalid file
MainLoadConfig ==
    /\ pc = "load"
    /\ IF configFile = "ok"
       THEN /\ pc' = IF program = "manage" THEN "create" ELSE "standards"
            /\ ret' = ret
       ELSE /\ pc' = "raised"
            /\ ret' = Raised("load_config", "file_error")
    /\ UNCHANGED <<config, remote, pageSize, cascade, faults, isDraft, live,
                   deviations, idx, tools, patterns, standard, calls>>
    /\ UNCHANGED applyVars
    /\ UNCHANGED mainVars

\* get_coding_standards: the GET, then the drafts are filtered out; main
\* returns when no active standard is left
MainListStandards ==
    /\ pc = "standards"
    /\ \E o \in ReadOutcomes \cap faults :
        /\ calls' = Append(calls, Call("listStandards", "main", "-", FALSE, <<>>, o))
        /\ IF o # "ok"
           THEN pc' = "raised" /\ ret' = Raised("get_coding_standards", o)
                               /\ exit' = exit
           ELSE IF isDraft
           THEN pc' = "exited" /\ ret' = ret
                               /\ exit' = Finished("No active Coding Standards found")
           ELSE pc' = "details" /\ ret' = ret /\ exit' = exit
    /\ UNCHANGED <<config, remote, pageSize, cascade, faults, isDraft, live,
                   deviations, idx, tools, patterns, standard>>
    /\ UNCHANGED applyVars
    /\ UNCHANGED <<program, CODACY_API_TOKEN, configFile>>

\* select_coding_standard and get_coding_standard_details
MainDetails ==
    /\ pc = "details"
    /\ \E o \in ReadOutcomes \cap faults :
        /\ calls' = Append(calls, Call("getStandard", "main", "-", FALSE, <<>>, o))
        /\ IF o = "ok"
           THEN /\ standard' = [id |-> "S1", isDraft |-> isDraft]
                /\ pc' = IF program = "extractor" THEN "extract" ELSE "fetch"
                /\ ret' = ret
           ELSE /\ standard' = standard
                /\ pc' = "raised"
                /\ ret' = Raised("get_coding_standard_details", o)
    /\ UNCHANGED <<config, remote, pageSize, cascade, faults, isDraft, live,
                   deviations, idx, tools, patterns>>
    /\ UNCHANGED applyVars
    /\ UNCHANGED mainVars

\* extractor lines 118-131: fetch the tools and the patterns of the enabled
\* ones, save the enabled tools with their enabled patterns
ExtractSave ==
    /\ pc = "extract"
    /\ \E o \in ReadOutcomes \cap faults :
        IF o = "ok"
        THEN /\ live' = ExtractTools(remote, pageSize)
             /\ calls' = calls
                   \o <<Call("listTools", "extract", "-", FALSE, <<>>, "ok")>>
                   \o ExtractCallsFrom(remote, pageSize, 1)
             /\ ret' = [fn |-> "extract", state |-> "returned",
                        value |-> save_coding_standard(live')]
             /\ pc' = "saved"
        ELSE /\ calls' = Append(calls, Call("listTools", "extract", "-", FALSE, <<>>, o))
             /\ ret' = Raised("extract", o)
             /\ pc' = "raised"
             /\ live' = live
    /\ UNCHANGED <<config, remote, pageSize, cascade, faults, isDraft, deviations,
                   idx, tools, patterns, standard>>
    /\ UNCHANGED applyVars
    /\ UNCHANGED mainVars

\* manage lines 210-213: the id of the standard process_coding_standard
\* returned goes to apply_coding_standard_to_all_repositories
MainApplyStart ==
    /\ pc = "built"
    /\ pc' = "apply_list"
    /\ UNCHANGED <<config, remote, pageSize, cascade, faults, isDraft, live,
                   deviations, idx, tools, patterns, standard, calls, ret>>
    /\ UNCHANGED applyVars
    /\ UNCHANGED mainVars

\* the last prints of main (manage 215-227, state_manager 162-167,
\* extractor 131), after which main returns
MainFinish ==
    /\ pc \in {"applied", "done", "saved"}
    /\ pc' = "exited"
    /\ exit' = Finished("summary")
    /\ UNCHANGED <<config, remote, pageSize, cascade, faults, isDraft, live,
                   deviations, idx, tools, patterns, standard, calls, ret>>
    /\ UNCHANGED applyVars
    /\ UNCHANGED <<program, CODACY_API_TOKEN, configFile>>

\* the except clauses of main (manage 229-232, state_manager 169-174,
\* extractor 133-138): print the error, and main returns
MainCatch ==
    /\ pc = "raised"
    /\ pc' = "exited"
    /\ exit' = Handled
    /\ UNCHANGED <<config, remote, pageSize, cascade, faults, isDraft, live,
                   deviations, idx, tools, patterns, standard, calls, ret>>
    /\ UNCHANGED applyVars
    /\ UNCHANGED <<program, CODACY_API_TOKEN, configFile>>

\* the inputs of the runs of main: a baseline of at most one tool, a
\* standard of at most one tool, at most two repositories on one-name pages
MainConfigs == {c \in Configs : Len(c.tools) <= 1}

MainStandards(prog) ==
    {ts \in (IF prog = "manage" THEN NewStandards ELSE Remotes) : Len(ts) <= 1}

MainListings == {<<<<>>>>, <<<<1>>, <<2>>>>}

InitMain ==
    /\ program \in Programs
    /\ CODACY_API_TOKEN \in {NoToken, "", "t0k3n"}
    /\ configFile \in (IF program = "extractor" \/ TokenMissing(CODACY_API_TOKEN)
                       THEN {"ok"} ELSE {"ok", "unreadable"})
    /\ config \in (IF program = "extractor" \/ TokenMissing(CODACY_API_TOKEN)
                      \/ configFile = "unreadable"
                   THEN {[tools |-> <<>>]} ELSE MainConfigs)
    /\ remote \in (IF TokenMissing(CODACY_API_TOKEN) \/ configFile = "unreadable"
                   THEN {<<>>} ELSE MainStandards(program))
    /\ pageSize \in (IF remote = <<>> THEN {1} ELSE 1..MaxPageSize)
    /\ cascade = FALSE
    /\ faults = AllOutcomes
    /\ isDraft \in (IF program = "manage" THEN {TRUE}
                    ELSE IF remote = <<>> THEN BOOLEAN ELSE {FALSE})
    /\ live = <<>>
    /\ deviations = <<>>
    /\ idx = 1
    /\ tools = <<>>
    /\ patterns = <<>>
    /\ standard = NoStandard
    /\ repoPages \in (IF program = "manage" /\ ~TokenMissing(CODACY_API_TOKEN)
                         /\ configFile = "ok"
                      THEN MainListings ELSE {<<>>})
    /\ batch_size = 1
    /\ all_repositories = <<>>
    /\ cursor = 0
    /\ batchStart = 0
    /\ attempt = 0
    /\ results = NoResults
    /\ calls = <<>>
    /\ ret = NoRet
    /\ pc = "main"
    /\ exit = Running

NextMain ==
    \/ MainStart \/ MainLoadConfig \/ MainListStandards \/ MainDetails
    \/ ExtractSave \/ MainApplyStart \/ MainFinish \/ MainCatch
    \/ NextBuild \/ NextRec \/ NextApply

SpecMain == InitMain /\ [][NextMain]_vars

-----------------------------------------------------------------------------
(* main() of manage_coding_standard.py on baselines of up to two tools:    *)
(* process_coding_standard, then apply_coding_standard_to_all_repositories *)

\* the baselines whose tools list their whole catalog, in catalog order
ManageConfigs ==
    {c \in Configs :
        \A a \in 1..Len(c.tools) :
            [j \in 1..Len(c.tools[a].patterns) |-> c.tools[a].patterns[j].id]
                = Catalog(c.tools[a].uuid)}

\* the new standards whose patterns all start enabled
ManageStandards ==
    {ts \in NewStandards :
        \A i \in 1..Len(ts) : \A j \in 1..Len(ts[i].patterns) :
            ts[i].patterns[j].enabled}

InitManage ==
    /\ program = "manage"
    /\ CODACY_API_TOKEN = "t0k3n"
    /\ configFile = "ok"
    /\ config \in ManageConfigs
    /\ remote \in ManageStandards
    /\ pageSize \in 1..MaxPageSize
    /\ cascade = FALSE
    /\ faults = AllOutcomes
    /\ isDraft = TRUE
    /\ live = <<>>
    /\ deviations = <<>>
    /\ idx = 1
    /\ tools = <<>>
    /\ patterns = <<>>
    /\ standard = NoStandard
    /\ repoPages = <<<<1>>>>
    /\ batch_size = 1
    /\ all_repositories = <<>>
    /\ cursor = 0
    /\ batchStart = 0
    /\ attempt = 0
    /\ results = NoResults
    /\ calls = <<>>
    /\ ret = NoRet
    /\ pc = "main"
    /\ exit = Running

NextManage ==
    \/ MainStart \/ MainLoadConfig \/ NextBuild \/ MainApplyStart \/ NextApply
    \/ MainFinish \/ MainCatch

SpecManage == InitManage /\ [][NextManage]_vars

-----------------------------------------------------------------------------
(* Properties of the Drift Reconciler *)

IsUpdate(c, phase) == c.op = "updateTool" /\ c.phase = phase

\* what the scan of the baseline tool uuid finds against the fetched live tree
OwnDeviations(uuid) == ScanTool(config.tools[FindTool(config.tools, uuid)], live)

Returned(fn) == ret.fn = fn /\ ret.state = "returned"

\* reconcile never sends updateTool for a baseline tool whose own scan
\* recorded no deviation, whatever earlier tools of the pass recorded
UpdateOnlyDeviatingTools ==
    \A k \in 1..Len(calls) :
        IsUpdate(calls[k], "reconcile") => OwnDeviations(calls[k].uuid) # <<>>

\* the scenario of C1: baseline T1(enabled; P1:true, P2:false), T2(enabled;
\* P3:true); live T1 lacks P1, T2 matches exactly
C1_Baseline ==
    [tools |-> <<[uuid |-> "T1", isEnabled |-> TRUE,
                  patterns |-> <<[id |-> "P1", enabled |-> TRUE],
                                 [id |-> "P2", enabled |-> FALSE]>>],
                 [uuid |-> "T2", isEnabled |-> TRUE,
                  patterns |-> <<[id |-> "P3", enabled |-> TRUE]>>]>>]

C1_Live ==
    <<[uuid |-> "T1", isEnabled |-> TRUE,
       patterns |-> <<[id |-> "P2", enabled |-> FALSE]>>],
      [uuid |-> "T2", isEnabled |-> TRUE,
       patterns |-> <<[id |-> "P3", enabled |-> TRUE]>>]>>

\* C1: a baseline tool that is live and whose own scan records no deviation
\* never receives an updateTool in reconcile, even after an earlier tool
\* recorded deviations; in the scenario the only corrective call is
\* update(T1) and the returned deviations are [pattern-missing(P1, T1)].
C1_UpdateOnlyDeviatingTools ==
    /\ UpdateOnlyDeviatingTools
    /\ (config = C1_Baseline /\ live = C1_Live) =>
        /\ \A k \in 1..Len(calls) :
                IsUpdate(calls[k], "reconcile") => calls[k].uuid = "T1"
        /\ Returned("reconcile") =>
                ret.value = <<Deviation("pattern-missing", "T1", "P1")>>

\* the live tree has exactly the baseline's tools, flags and patterns
ExactMatch(base, cur) ==
    /\ {base[a].uuid : a \in 1..Len(base)} = {cur[b].uuid : b \in 1..Len(cur)}
    /\ \A a \in 1..Len(base) : \A b \in 1..Len(cur) :
        base[a].uuid = cur[b].uuid =>
            /\ base[a].isEnabled = cur[b].isEnabled
            /\ Range(base[a].patterns) = Range(cur[b].patterns)

\* every baseline tool is live with the baseline's flag, and every baseline
\* pattern is in the live tool with the baseline's flag
BaselineCovered(base, cur) ==
    \A a \in 1..Len(base) :
        \E b \in 1..Len(cur) :
            /\ base[a].uuid = cur[b].uuid
            /\ base[a].isEnabled = cur[b].isEnabled
            /\ Range(base[a].patterns) \subseteq Range(cur[b].patterns)

\* C3 as stated: an empty deviation list means the live configuration matches
\* the baseline exactly, with no live tool or pattern the baseline lacks.
C3_EmptyMeansExactMatch ==
    (Returned("reconcile") /\ ret.value = <<>>) => ExactMatch(config.tools, live)

\* C3 as amended: an empty deviation list means every baseline tool is live
\* with the same isEnabled and every baseline pattern is in it with the same
\* enabled flag; the live tree may hold tools and patterns the baseline lacks.
C3_EmptyMeansBaselineCovered ==
    (Returned("reconcile") /\ ret.value = <<>>) => BaselineCovered(config.tools, live)

\* reconcile returned no deviation for a baseline of two tools with patterns
\* against a live tree that holds a pattern the baseline does not list
C3_Witness ==
    /\ Returned("reconcile")
    /\ ret.value = <<>>
    /\ Len(config.tools) = 2
    /\ \A a \in 1..2 : Len(config.tools[a].patterns) > 0
    /\ ~ExactMatch(config.tools, live)

-----------------------------------------------------------------------------
(* Properties of the Standard Builder *)

\* the disable loop is over
DisablePassDone == pc \in {"enable", "promote", "built"}

\* pattern id of tool uuid was sent as enabled:false in the disable pass
SentDisabled(uuid, id) ==
    \E k \in 1..Len(calls) :
        /\ IsUpdate(calls[k], "disable")
        /\ calls[k].uuid = uuid
        /\ calls[k].outcome \in {"ok", "empty_body"}
        /\ \E j \in 1..Len(calls[k].patterns) :
            calls[k].patterns[j] = [id |-> id, enabled |-> FALSE]

\* C2: build from a config, then reconcile of the live result against the
\* same config, returns no deviation. Stated for the runs most favourable to
\* it: every request succeeds, the new standard has every tool and pattern
\* of the config, and the service stores the flags as they are sent.
C2_RoundTripNoDeviations ==
    (Returned("reconcile") /\ ~cascade) => ret.value = <<>>

\* C4: after the disable pass every pattern of every tool of the new
\* standard, on every page of its listing, has been sent as enabled:false.
C4_DisablePassCoversEveryPage ==
    DisablePassDone =>
        \A t \in 1..Len(remote) : \A j \in 1..Len(remote[t].patterns) :
            SentDisabled(remote[t].uuid, remote[t].patterns[j].id)

\* C5: every updateTool of the disable pass has enabled=false for the tool
\* and for every pattern entry, whatever flags the patterns were fetched with.
C5_DisablePassSendsOnlyFalse ==
    \A k \in 1..Len(calls) :
        IsUpdate(calls[k], "disable") =>
            /\ calls[k].enabled = FALSE
            /\ \A j \in 1..Len(calls[k].patterns) : calls[k].patterns[j].enabled = FALSE

\* a disable update was sent for a tool fetched with an enabled pattern
C5_Witness ==
    \E k \in 2..Len(calls) :
        /\ IsUpdate(calls[k], "disable")
        /\ calls[k-1].op = "listPatterns"
        /\ \E j \in 1..Len(calls[k-1].patterns) : calls[k-1].patterns[j].enabled
        /\ Len(calls[k].patterns) = Len(calls[k-1].patterns)

\* the enable updates sent so far: the uuids, in order
RECURSIVE EnableUuids(_)
EnableUuids(cs) ==
    IF cs = <<>> THEN <<>>
    ELSE (IF IsUpdate(Head(cs), "enable") THEN <<Head(cs).uuid>> ELSE <<>>)
            \o EnableUuids(Tail(cs))

ConfigUuids == [a \in 1..Len(config.tools) |-> config.tools[a].uuid]

Ended == pc \in {"built", "raised"}

\* C6: once step 3 has begun, whichever enable updates fail, the build ends
\* with exactly one enable update per tool of config.tools, in order, and
\* with promoteStandard attempted.
C6_EnableFailureContained ==
    (Ended /\ EnableUuids(calls) # <<>>) =>
        /\ EnableUuids(calls) = ConfigUuids
        /\ \E k \in 1..Len(calls) : calls[k].op = "promoteStandard"

PromotionFailed ==
    /\ calls # <<>>
    /\ calls[Len(calls)].op = "promoteStandard"
    /\ calls[Len(calls)].outcome # "ok"

\* C7: when promoteStandard fails, it is the last request (no rollback), the
\* standard stays a draft, build returns the created standard, and what it
\* returns differs from what it returns after a successful promotion (the
\* response of createStandard as it is), so that the caller can tell.
C7_PromotionFailureSurfaced ==
    PromotionFailed =>
        /\ isDraft
        /\ Returned("build")
        /\ ret.value.id = standard.id
        /\ ret.value # standard

-----------------------------------------------------------------------------
(* Properties of the Bulk Applier *)

\* C8: applyToAll never raises: whatever the list and link requests do, the
\* run never ends with an exception escaping it.
C8_ApplyNeverRaises == ret.state # "raised"

IsLink(c) == c.op = "link"

IsBackoff(c) == c.op = "sleep" /\ c.why = "backoff"

\* the names of the batch of link call c are all in seq under some record
AllFailedWith(c, status, content) ==
    \A j \in 1..Len(c.names) :
        \E f \in 1..Len(results.failed) :
            /\ results.failed[f].repo = c.names[j]
            /\ results.failed[f].status_code = status
            /\ results.failed[f].error_content = content

AllSuccessful(c) == Range(c.names) \subseteq Range(results.successful)

\* the link calls of the batch starting at start
LinkCount(start) == Cardinality({k \in 1..Len(calls) : IsLink(calls[k]) /\ calls[k].start = start})

\* the backoff seconds slept for the batch starting at start
RECURSIVE BackoffFrom(_, _)
BackoffFrom(start, k) ==
    IF k >= Len(calls) THEN 0
    ELSE (IF IsLink(calls[k]) /\ calls[k].start = start /\ IsBackoff(calls[k+1])
          THEN calls[k+1].secs ELSE 0) + BackoffFrom(start, k + 1)

Backoff(start) == BackoffFrom(start, 1)

\* C9: a batch gets at most 3 link attempts; a failure with a status other
\* than 400 on attempt k (k = 0, 1) is followed by a sleep of 2^k seconds and
\* then by attempt k+1; nothing but the 1-second pause follows the last
\* attempt; 500, 500, success marks the batch successful after 1+2 = 3
\* seconds of backoff; three such failures record the batch as failed after
\* exactly 3 attempts.
C9_RetryBackoff ==
    \A k \in 1..Len(calls) :
        IsLink(calls[k]) =>
            LET c == calls[k] IN
            /\ c.attempt < 3
            /\ (c.outcome = "http_500" /\ c.attempt < 2) =>
                    /\ calls[k+1] = Sleep(Pow2(c.attempt), "backoff")
                    /\ IF k + 2 <= Len(calls)
                       THEN /\ IsLink(calls[k+2])
                            /\ calls[k+2].start = c.start
                            /\ calls[k+2].attempt = c.attempt + 1
                       ELSE pc = "link" /\ batchStart = c.start
                                        /\ attempt = c.attempt + 1
            /\ (c.outcome = "http_500" /\ c.attempt = 2) =>
                    /\ calls[k+1] = Sleep(1, "pause")
                    /\ LinkCount(c.start) = 3
                    /\ Backoff(c.start) = 3
                    /\ AllFailedWith(c, 500, "None")
                    /\ ~AllSuccessful(c)
            /\ (c.outcome = "ok" /\ c.attempt = 2) =>
                    /\ calls[k+1] = Sleep(1, "pause")
                    /\ Backoff(c.start) = 1 + 2
                    /\ AllSuccessful(c)
            /\ (k > 1 /\ ~IsBackoff(calls[k-1])) => c.attempt = 0
            /\ (k > 1 /\ IsBackoff(calls[k-1])) => c.attempt > 0

\* a batch succeeded on its third attempt after two failures with status 500,
\* and another batch failed three times
C9_Witness ==
    /\ \E k \in 1..Len(calls) :
        IsLink(calls[k]) /\ calls[k].attempt = 2 /\ calls[k].outcome = "ok"
    /\ \E k \in 1..Len(calls) :
        IsLink(calls[k]) /\ calls[k].attempt = 2 /\ calls[k].outcome = "http_500"

\* C10: a link call that fails with status 400, on whichever attempt, is the
\* batch's last: the 1-second pause follows with no backoff sleep, the next
\* link call (if any) starts another batch, a 400 on the first attempt means
\* one attempt, and every repository of the batch is recorded as failed with
\* status 400 and the response body.
C10_NoRetryOn400 ==
    \A k \in 1..Len(calls) :
        (IsLink(calls[k]) /\ calls[k].outcome = "http_400") =>
            LET c == calls[k] IN
            /\ calls[k+1] = Sleep(1, "pause")
            /\ \A m \in (k+1)..Len(calls) : IsLink(calls[m]) => calls[m].start # c.start
            /\ LinkCount(c.start) = c.attempt + 1
            /\ AllFailedWith(c, 400, BodyOf("http_400"))
            /\ ~AllSuccessful(c)

\* a 400 arrived on a first attempt and, for another batch, on a retry
C10_Witness ==
    /\ \E k \in 1..Len(calls) :
        IsLink(calls[k]) /\ calls[k].attempt = 0 /\ calls[k].outcome = "http_400"
    /\ \E k \in 1..Len(calls) :
        IsLink(calls[k]) /\ calls[k].attempt = 1 /\ calls[k].outcome = "http_400"

\* C11: a connection failure or timeout of a link call is handled like a
\* failure with a status other than 400: on attempt k (k = 0, 1) a sleep of
\* 2^k seconds and attempt k+1 follow, on the last attempt the batch is
\* recorded as failed and the 1-second pause follows; the applier goes on
\* with the next batch and the run does not end with an exception.
C11_TransportFailureRetried ==
    \A k \in 1..Len(calls) :
        (IsLink(calls[k]) /\ calls[k].outcome = "transport_error") =>
            LET c == calls[k] IN
            /\ ret.state # "raised"
            /\ k < Len(calls)
            /\ calls[k+1] = IF c.attempt < max_retries - 1
                            THEN Sleep(Pow2(c.attempt), "backoff")
                            ELSE Sleep(1, "pause")
            /\ c.attempt = max_retries - 1 =>
                    \A j \in 1..Len(c.names) :
                        \E f \in 1..Len(results.failed) :
                            results.failed[f].repo = c.names[j]

\* the names of all pages, concatenated in page order
RECURSIVE Flatten(_)
Flatten(pages) == IF pages = <<>> THEN <<>> ELSE Head(pages) \o Flatten(Tail(pages))

\* the listRepositories requests so far: their positions in calls
ListCalls == {k \in 1..Len(calls) : calls[k].op = "listRepos"}

\* the draining loop is over: the applier is linking or has returned
Drained ==
    \/ pc \in {"link", "applied"}
    \/ pc = "raised" /\ calls # <<>> /\ calls[Len(calls)].op = "link"

\* C12: the k-th listRepositories call is the k-th request of the run and
\* carries the cursor of page k-1 (none for the first); once draining is
\* over there was exactly one list call per page and the collected names
\* are the names of all pages concatenated in page order.
C12_PaginationDraining ==
    /\ \A k \in ListCalls :
        /\ calls[k].cursor = k - 1
        /\ k <= Len(repoPages)
        /\ calls[k].outcome = "ok" => SubSeq(all_repositories, 1,
                                        Len(Flatten(SubSeq(repoPages, 1, k))))
                                        = Flatten(SubSeq(repoPages, 1, k))
    /\ Drained =>
        /\ Cardinality(ListCalls) = Len(repoPages)
        /\ all_repositories = Flatten(repoPages)

\* pages of sizes [2,1,1] were drained: 4 names and exactly 3 list calls
C12_Witness ==
    /\ Drained
    /\ Len(repoPages) = 3
    /\ Len(repoPages[1]) = 2
    /\ Len(all_repositories) = 4
    /\ Cardinality(ListCalls) = 3

\* the link requests so far: their positions in calls
LinkCalls == {k \in 1..Len(calls) : IsLink(calls[k])}

\* the batches linked so far, each named by the index of its first name
BatchStarts == {calls[k].start : k \in LinkCalls}

\* ceil(n / b) for b >= 1
CeilDiv(n, b) == (n + b - 1) \div b

\* C13: every batch is the contiguous slice of the collected names that
\* starts at a multiple of batchSize B; it has exactly B names unless it is
\* the last, which has N - B*(ceil(N/B)-1); no batch is empty; the batches
\* are linked in order without a gap; a run that returns has linked
\* ceil(N/B) batches, none when N = 0.
C13_Batching ==
    LET N == Len(all_repositories)
        B == batch_size
        links == LinkCalls
        starts == BatchStarts
    IN /\ \A k \in links :
            LET c == calls[k]
                j == c.start \div B
            IN /\ c.start = j * B
               /\ j < CeilDiv(N, B)
               /\ c.names = [m \in 1..Len(c.names) |-> all_repositories[c.start + m]]
               /\ Len(c.names) >= 1
               /\ Len(c.names) = IF j < CeilDiv(N, B) - 1 THEN B
                                 ELSE N - B * (CeilDiv(N, B) - 1)
               /\ \A m \in links : m < k => calls[m].start <= c.start
       /\ \A st \in starts : st > 0 => (st - B) \in starts
       /\ Returned("apply") => Cardinality(starts) = CeilDiv(N, B)

\* 4 names with batchSize 3 were linked as batches of sizes [3, 1]
C13_Witness ==
    /\ Returned("apply")
    /\ Len(all_repositories) = 4
    /\ batch_size = 3
    /\ \E k \in LinkCalls : calls[k].start = 0 /\ Len(calls[k].names) = 3
    /\ \E k \in LinkCalls : calls[k].start = 3 /\ Len(calls[k].names) = 1

\* the repository names of the failed list, in its order
FailedRepos == [f \in 1..Len(results.failed) |-> results.failed[f].repo]

\* how often x occurs in the sequence s
Occurrences(s, x) == Cardinality({j \in 1..Len(s) : s[j] = x})

\* s is a subsequence of the collected names in collected order (the names
\* of a listing are 1, 2, ... in the order collected)
InCollectedOrder(s) == \A a, b \in 1..Len(s) : a < b => s[a] < s[b]

\* the last link request of the batch starting at start succeeded
FinallySucceeded(start) ==
    \E k \in LinkCalls :
        /\ calls[k].start = start
        /\ calls[k].outcome = "ok"
        /\ \A m \in LinkCalls : calls[m].start = start => m <= k

\* C14: when applyToAll returns, every collected name is exactly once in
\* successful and failed together; it is in successful iff the link call of
\* its batch finally succeeded; the names of one batch share the outcome;
\* both lists keep the collected order.
C14_OutcomesPartitionInput ==
    Returned("apply") =>
        /\ \A n \in 1..Len(all_repositories) :
            LET name == all_repositories[n]
                start == ((n - 1) \div batch_size) * batch_size
            IN /\ Occurrences(results.successful, name)
                    + Occurrences(FailedRepos, name) = 1
               /\ Occurrences(results.successful, name) = 1 <=> FinallySucceeded(start)
        /\ \A k \in LinkCalls :
            \/ Range(calls[k].names) \subseteq Range(results.successful)
            \/ Range(calls[k].names) \subseteq Range(FailedRepos)
        /\ Range(results.successful) \cup Range(FailedRepos) = Range(all_repositories)
        /\ InCollectedOrder(results.successful)
        /\ InCollectedOrder(FailedRepos)
        /\ ret.value = results

\* applyToAll returned after a batch of two names failed and a later batch
\* of two names succeeded on a retry
C14_Witness ==
    /\ Returned("apply")
    /\ batch_size = 2
    /\ Len(results.failed) = 2
    /\ Len(results.successful) = 2
    /\ results.failed[1].repo = 1
    /\ \E k \in LinkCalls : calls[k].outcome = "ok" /\ calls[k].attempt > 0

IsPause(c) == c.op = "sleep" /\ c.why = "pause"

\* the 1-second pauses so far: their positions in calls
Pauses == {k \in 1..Len(calls) : IsPause(calls[k])}

\* link request k ended its batch: it succeeded, failed with status 400, or
\* failed with another status on the last attempt
EndsBatch(k) ==
    \/ calls[k].outcome \in {"ok", "http_400"}
    \/ calls[k].outcome = "http_500" /\ calls[k].attempt = max_retries - 1

\* C15: the request that ends a batch (success, 400, or retries exhausted)
\* is followed at once by one sleep of 1 second, and a pause occurs nowhere
\* else; every link call of a batch comes after the pauses of all earlier
\* batches; when applyToAll returns, the pauses are as many as the batches.
C15_PauseAfterEveryBatch ==
    LET pauses == Pauses IN
    /\ \A k \in LinkCalls :
        /\ EndsBatch(k) => (k < Len(calls) /\ calls[k+1] = Sleep(1, "pause"))
        /\ Cardinality({p \in pauses : p < k}) = calls[k].start \div batch_size
    /\ \A p \in pauses :
        /\ calls[p].secs = 1
        /\ p > 1 /\ IsLink(calls[p-1]) /\ EndsBatch(p-1)
    /\ Returned("apply") =>
        /\ Cardinality(pauses) = Cardinality(BatchStarts)
        /\ Cardinality(pauses) = CeilDiv(Len(all_repositories), batch_size)

\* applyToAll returned after three batches: one succeeded, one failed with
\* 400, one failed after its third attempt
C15_Witness ==
    /\ Returned("apply")
    /\ Cardinality(Pauses) = 3
    /\ \E k \in LinkCalls : calls[k].outcome = "ok"
    /\ \E k \in LinkCalls : calls[k].outcome = "http_400"
    /\ \E k \in LinkCalls : calls[k].outcome = "http_500"
                                /\ calls[k].attempt = max_retries - 1

-----------------------------------------------------------------------------
(* Properties of updateTool and of the reconciler's frame *)

\* C17: an updateTool that the service answers 2xx with an empty body is a
\* success, in the builder and in the reconciler: the function that sent it
\* does not fail on it, and reconcile goes on to scan the remaining baseline
\* tools and returns.
C17_EmptyBodyIsSuccess ==
    \A k \in 1..Len(calls) :
        (calls[k].op = "updateTool" /\ calls[k].outcome = "empty_body") =>
            (k = Len(calls) => (ret.state # "raised" /\ pc # "raised"))

\* C19: no step of reconcile changes the baseline configuration: its tools,
\* their isEnabled flags and their pattern lists stay what they were before
\* the call, whatever the live tree holds and however the corrective calls end.
C19_BaselineNeverMutated == [][config' = config]_vars

\* reconcile returned deviations after a corrective update that the service
\* accepted, for a baseline tool with a pattern whose live flag differed
C19_Witness ==
    /\ Returned("reconcile")
    /\ ret.value # <<>>
    /\ \E k \in 1..Len(calls) :
        /\ IsUpdate(calls[k], "reconcile")
        /\ calls[k].outcome = "ok"
        /\ calls[k].patterns # <<>>
        /\ \E d \in 1..Len(ret.value) :
            /\ ret.value[d].kind = "pattern-enabled-mismatch"
            /\ ret.value[d].tool = calls[k].uuid

\* the deviations recorded so far for tool uuid, of the kinds in kinds
DeviationsOf(uuid, kinds) ==
    {d \in 1..Len(deviations) :
        deviations[d].tool = uuid /\ deviations[d].kind \in kinds}

DeviationKinds ==
    {"tool-missing", "tool-enabled-mismatch", "pattern-missing",
     "pattern-enabled-mismatch"}

\* C20: for a baseline tool whose uuid is absent from the live standard,
\* reconcile records one tool-missing deviation when it scans the tool, no
\* deviation of another kind for it, and sends no updateTool for its uuid.
C20_MissingToolOnlyRecorded ==
    \A a \in 1..Len(config.tools) :
        LET uuid == config.tools[a].uuid IN
        (ret.fn = "reconcile" /\ FindTool(live, uuid) = 0) =>
            /\ Cardinality(DeviationsOf(uuid, {"tool-missing"}))
                    = (IF a < idx THEN 1 ELSE 0)
            /\ DeviationsOf(uuid, DeviationKinds \ {"tool-missing"}) = {}
            /\ \A k \in 1..Len(calls) :
                    calls[k].op = "updateTool" => calls[k].uuid # uuid
            /\ Returned("reconcile") =>
                    Cardinality({d \in 1..Len(ret.value) :
                                    ret.value[d].tool = uuid}) = 1

\* reconcile returned for a baseline whose first tool is live with a
\* deviation and whose second tool, with an enabled pattern, is missing live
C20_Witness ==
    /\ Returned("reconcile")
    /\ Len(config.tools) = 2
    /\ FindTool(live, config.tools[1].uuid) # 0
    /\ FindTool(live, config.tools[2].uuid) = 0
    /\ \E j \in 1..Len(config.tools[2].patterns) : config.tools[2].patterns[j].enabled
    /\ Len(ret.value) >= 2
    /\ ret.value[Len(ret.value)].kind = "tool-missing"

-----------------------------------------------------------------------------
(* Properties of the entry points *)

\* C16: in each of the three entry points, a run whose API token is absent
\* from the environment issues no request to the remote service and ends
\* at once with a configuration error (the uncaught ValueError, status 1).
C16_MissingTokenFailsBeforeAnyRequest ==
    (program \in Programs /\ CODACY_API_TOKEN = NoToken) =>
        /\ calls = <<>>
        /\ pc \in {"main", "exited"}
        /\ pc = "exited" => exit = Uncaught("ValueError")

\* the reconciler's main ended on the missing token
C16_Witness ==
    /\ program = "state_manager"
    /\ CODACY_API_TOKEN = NoToken
    /\ pc = "exited"
    /\ exit.code = 1

\* a failure reached main: an exception left the function main called
FatalFailure == ret.state = "raised"

\* C18: a run in which a fatal failure reaches the top-level entry point
\* (createStandard or a listing fails, the baseline file is unreadable)
\* prints a diagnostic and ends with a non-zero exit status; a run that
\* ends with status 0 had no such failure.
C18_FatalFailureExitsNonZero ==
    (pc = "exited" /\ FatalFailure) =>
        /\ exit.printed # "summary"
        /\ exit.code # 0

-----------------------------------------------------------------------------
(* Properties of the deviation list and of the corrective updates *)

\* the live tool with this uuid, as fetched (only used when there is one)
LiveTool(uuid) == live[FindTool(live, uuid)]

\* the live tool holds a pattern with this id; it holds it with this flag
LiveHas(uuid, id) ==
    \E j \in 1..Len(LiveTool(uuid).patterns) : LiveTool(uuid).patterns[j].id = id

LiveHasWith(uuid, id, flag) ==
    \E j \in 1..Len(LiveTool(uuid).patterns) :
        LiveTool(uuid).patterns[j] = [id |-> id, enabled |-> flag]

\* the mismatch that the deviation d describes exists between the baseline
\* tool t and the fetched live tree
Mismatch(t, d) ==
    IF FindTool(live, t.uuid) = 0 THEN d.kind = "tool-missing" /\ d.pattern = "-"
    ELSE \/ /\ d.kind = "tool-enabled-mismatch"
            /\ d.pattern = "-"
            /\ LiveTool(t.uuid).isEnabled # t.isEnabled
         \/ \E j \in 1..Len(t.patterns) :
            /\ d.pattern = t.patterns[j].id
            /\ \/ d.kind = "pattern-missing" /\ ~LiveHas(t.uuid, d.pattern)
               \/ /\ d.kind = "pattern-enabled-mismatch"
                  /\ LiveHasWith(t.uuid, d.pattern, ~t.patterns[j].enabled)

\* every deviation a baseline could have: kind, tool, pattern ("-" for none)
AllDeviations ==
    {Deviation(kind, uuid, id) :
        kind \in DeviationKinds, uuid \in Range(ToolOrder),
        id \in {"-"} \cup UNION {Range(Catalog(u)) : u \in Range(ToolOrder)}}

\* the place of a deviation in the order of the report: baseline tool, then
\* 0 for the tool's own entry and the baseline position of the pattern
Place(d) ==
    LET a == FindTool(config.tools, d.tool)
        ps == config.tools[a].patterns
    IN <<a, IF d.pattern = "-" THEN 0
            ELSE CHOOSE j \in 1..Len(ps) : ps[j].id = d.pattern>>

Before(x, y) == x[1] < y[1] \/ (x[1] = y[1] /\ x[2] < y[2])

\* C21: the list reconcile returns has one entry for every mismatch between
\* the baseline and the fetched live tree and no other entry (a tool absent
\* live has its tool-missing entry only); a pattern never has both a missing
\* and an enabled-mismatch entry; the entries follow the baseline tool
\* order and, within a tool, the tool's enabled mismatch comes first and the
\* pattern entries follow the baseline pattern order.
C21_DeviationListExact ==
    Returned("reconcile") =>
        LET value == ret.value IN
        /\ \A d \in AllDeviations :
            Cardinality({k \in 1..Len(value) : value[k] = d})
                = (IF \E a \in 1..Len(config.tools) :
                        config.tools[a].uuid = d.tool /\ Mismatch(config.tools[a], d)
                   THEN 1 ELSE 0)
        /\ Range(value) \subseteq AllDeviations
        /\ \A k, m \in 1..Len(value) :
            /\ (k < m) => Before(Place(value[k]), Place(value[m]))
            /\ (value[k].tool = value[m].tool /\ value[k].pattern = value[m].pattern
                    /\ value[k].pattern # "-") => k = m

\* reconcile returned entries of all three kinds for one live tool, the
\* enabled mismatch first, and an entry for a second tool after them
C21_Witness ==
    /\ Returned("reconcile")
    /\ Len(ret.value) = 4
    /\ ret.value[1].kind = "tool-enabled-mismatch"
    /\ {ret.value[2].kind, ret.value[3].kind}
            = {"pattern-missing", "pattern-enabled-mismatch"}
    /\ ret.value[3].tool = ret.value[1].tool
    /\ ret.value[4].tool # ret.value[1].tool
    /\ ret.value[4].kind = "pattern-enabled-mismatch"

\* the corrective updates sent so far for tool uuid: their positions in calls
UpdatesOf(uuid) ==
    {k \in 1..Len(calls) : IsUpdate(calls[k], "reconcile") /\ calls[k].uuid = uuid}

\* the scan of baseline tool a is complete and its update, if any, was sent
PastUpdate(a) == a < idx \/ (a = idx /\ pc = "raised")

\* C22: a baseline tool that is live and whose own scan recorded a deviation
\* gets no updateTool before its scan is complete, is the tool the
\* reconciler updates next once it is, and has got exactly one updateTool
\* before the next tool is scanned; the call carries the baseline's
\* isEnabled and the baseline's whole pattern list of the tool; the updates
\* follow the baseline tool order.
C22_DeviatingToolUpdatedOnce ==
    ret.fn = "reconcile" =>
        /\ \A a \in 1..Len(config.tools) :
            LET t == config.tools[a]
                sent == UpdatesOf(t.uuid)
            IN (FindTool(live, t.uuid) # 0 /\ OwnDeviations(t.uuid) # <<>>) =>
                /\ Cardinality(sent) = (IF PastUpdate(a) THEN 1 ELSE 0)
                /\ (a = idx /\ ~PastUpdate(a) /\ deviations # <<>>
                        /\ deviations[Len(deviations)].tool = t.uuid) => pc = "update"
                /\ \A k \in sent :
                    /\ calls[k].enabled = t.isEnabled
                    /\ calls[k].patterns = t.patterns
        /\ \A k, m \in 1..Len(calls) :
            (k < m /\ IsUpdate(calls[k], "reconcile") /\ IsUpdate(calls[m], "reconcile"))
                => FindTool(config.tools, calls[k].uuid)
                        < FindTool(config.tools, calls[m].uuid)

\* reconcile returned after it updated a tool whose only deviation was a
\* missing pattern: the call carried both baseline patterns, among them one
\* with the flag false that matched the live tree
C22_Witness ==
    /\ Returned("reconcile")
    /\ \E k \in 1..Len(calls) :
        /\ IsUpdate(calls[k], "reconcile")
        /\ Len(calls[k].patterns) = 2
        /\ Len(OwnDeviations(calls[k].uuid)) = 1
        /\ OwnDeviations(calls[k].uuid)[1].kind = "pattern-missing"
        /\ \E j \in 1..2 :
            /\ ~calls[k].patterns[j].enabled
            /\ calls[k].patterns[j].id # OwnDeviations(calls[k].uuid)[1].pattern

-----------------------------------------------------------------------------
(* Properties of the order of the requests of build *)

\* the requests of process_coding_standard
BuildOps == {"createStandard", "listTools", "listPatterns", "updateTool",
             "promoteStandard"}

\* the requests of apply_coding_standard_to_all_repositories
ApplyOps == {"listRepos", "link"}

CallsOf(op) == {k \in 1..Len(calls) : calls[k].op = op}

EnableCalls == {k \in CallsOf("updateTool") : calls[k].phase = "enable"}

DisableCalls == {k \in CallsOf("updateTool") : calls[k].phase = "disable"}

\* build is over and returned: main goes on, or went on, to the applier
BuildReturned == Returned("build") \/ ret.fn = "apply"

\* C23: createStandard is the first request and the only one of its kind;
\* before the first enable update, every tool of the new standard has had
\* its disable update accepted, and no disable update follows an enable
\* update; the n-th enable update is for the n-th config tool and carries
\* the tool's patterns whose flag is true, in config order, and no other;
\* promoteStandard is issued at most once, after one enable update per
\* config tool, with no request of build after it, and exactly once when
\* build returns; a repository list or link request comes after it.
C23_BuildCallOrder ==
    LET enables == EnableCalls
        disables == DisableCalls
        promotes == CallsOf("promoteStandard")
    IN /\ calls # <<>> => calls[1].op = "createStandard"
       /\ CallsOf("createStandard") \subseteq {1}
       /\ \A k \in enables :
            LET n == Cardinality({j \in enables : j <= k})
                sent == calls[k].patterns
                ps == config.tools[n].patterns
            IN /\ \A t \in 1..Len(remote) :
                    \E j \in disables :
                        /\ j < k
                        /\ calls[j].uuid = remote[t].uuid
                        /\ calls[j].outcome \in {"ok", "empty_body"}
               /\ \A j \in disables : j < k
               /\ n <= Len(config.tools)
               /\ calls[k].uuid = config.tools[n].uuid
               /\ calls[k].enabled = config.tools[n].isEnabled
               /\ \A m \in 1..Len(sent) : sent[m].enabled
               /\ {sent[m].id : m \in 1..Len(sent)}
                    = {ps[m].id : m \in {x \in 1..Len(ps) : ps[x].enabled}}
               /\ Len(sent) = Cardinality({x \in 1..Len(ps) : ps[x].enabled})
               /\ \A a, b \in 1..Len(sent) :
                    a < b => \E x, y \in 1..Len(ps) :
                                x < y /\ ps[x].id = sent[a].id /\ ps[y].id = sent[b].id
       /\ Cardinality(promotes) <= 1
       /\ BuildReturned => Cardinality(promotes) = 1
       /\ \A k \in promotes :
            /\ \A j \in enables : j < k
            /\ Cardinality(enables) = Len(config.tools)
            /\ \A j \in (k+1)..Len(calls) : calls[j].op \notin BuildOps
       /\ \A k \in 1..Len(calls) :
            calls[k].op \in ApplyOps => \E j \in promotes : j < k

\* a run of main on a standard of two tools and a baseline of two tools, one
\* of them with a pattern enabled and a pattern disabled: promoteStandard
\* failed, and the repositories were listed and a link request was sent
C23_Witness ==
    /\ Len(remote) = 2
    /\ Len(config.tools) = 2
    /\ \E a \in 1..2 :
        /\ Len(config.tools[a].patterns) = 2
        /\ config.tools[a].patterns[1].enabled
        /\ ~config.tools[a].patterns[2].enabled
    /\ Cardinality(EnableCalls) = 2
    /\ \E k \in CallsOf("promoteStandard") : calls[k].outcome = "http_error"
    /\ CallsOf("link") # {}

====
